---- MODULE Spec2Model ----
(***************************************************************************)
(* nginx-logs-replay (src/index.js): the replay of a recorded access log   *)
(* against a target server.  The model follows the control flow of the     *)
(* script: the rows of the log are read and filtered into dataArray, the   *)
(* completion callback then walks dataArray, one event at a time, calling  *)
(* sendRequest and sleeping between events; generateReport is called from  *)
(* sendRequest when the three counters add up to dataArray.length, and     *)
(* from the SIGINT handler.                                                *)
(*                                                                         *)
(* Wall-clock readings (now, responseTime, startTime, finishTime) are not  *)
(* modelled: numStats is modelled by the number of samples pushed to it.   *)
(* Sequences are 1-based: dataArray[i] of the model is dataArray[i-1] of   *)
(* the script.                                                             *)
(***************************************************************************)
EXTENDS Integers, Sequences, FiniteSets, TLC

\* ------------------------------------------------------------------ bounds
\* Longest log of the classification runs (Spec).
MaxEvents == 2
\* Longest log of the pacing runs (SpecPacing).
MaxPaceEvents == 4
\* Longest log of the comparison runs (SpecCompare).
MaxCompareEvents == 2
\* Longest log of the ingestion runs (SpecIngest).
MaxIngestRows == 3
\* Longest log of the termination runs (SpecLive).
MaxLiveEvents == 2
MaxStatsEvents == 3
MaxHeaderFields == 2
\* Most 503 replies in a row the target gives to one request.
MaxRetries == 1

\* -------------------------------------------------------- program constants
\* axiosRetry(axios, {retries: 1000000, ...})
Retries == 1000000
\* retryDelay: retryCount * 2000
RetryDelayStep == 2000
\* 1000 / secondsRepeats[...] and ... - 1000 of the scale mode
OneSecond == 1000

\* ------------------------------------------------------------- JS values
Undefined == "undefined"
Null == "null"
SyntaxError == "SyntaxError"

\* `if (v)` of a string-or-absent value: undefined, null and "" are falsy.
Truthy(v) == v \notin {Undefined, Null, ""}

\* obj[key] of an object modelled as a function: undefined when absent.
Get(obj, key) == IF key \in DOMAIN obj THEN obj[key] ELSE Undefined

\* ---------------------------------------------------------------- numbers
\* JS numbers that are not integers: timeToSleep = x / args.ratio.  They are
\* kept as fractions in lowest terms, which is exact for the ratios used here
\* (halves are exact doubles).
RECURSIVE Gcd(_, _)
Gcd(a, b) == IF b = 0 THEN a ELSE Gcd(b, a % b)

Abs(a) == IF a < 0 THEN -a ELSE a

Frac(n, d) ==
    LET g == Gcd(Abs(n), d)
    IN  IF n = 0 THEN [num |-> 0, den |-> 1] ELSE [num |-> n \div g, den |-> d \div g]

FracAdd(a, b) == Frac(a.num * b.den + b.num * a.den, a.den * b.den)

Zero == Frac(0, 1)

\* Number((1000 / r).toFixed(0)): 1000 / r rounded to the nearest integer,
\* a tie going up.
ToFixed0(a, r) == (2 * a + r) \div (2 * r)

\* ------------------------------------------------------------------- JSON
\* Texts and values are drawn from a small universe.  A JSON value is named
\* by its members in the order the text gives them, which is the order the
\* parsed object keeps its keys in.
\*
\* JSON.parse(text): the value, or SyntaxError when it throws.
JSONParse(text) ==
    CASE text = "{\"a\":1}" -> "{a:1}"
      [] text = "{\"a\":2}" -> "{a:2}"
      [] text = "{\"a\":1,\"b\":2}" -> "{a:1,b:2}"
      [] text = "{\"b\":2,\"a\":1}" -> "{b:2,a:1}"
      [] text = "{}" -> "{}"
      [] text = "[]" -> "[]"
      [] text = "null" -> Null
      [] OTHER -> SyntaxError

\* _.isEmpty(value): null, undefined, "", [] and {} are empty.
IsEmpty(value) == value \in {Null, Undefined, "", "[]", "{}"}

\* A value with the keys of its objects in sorted order.
Canonical(value) == IF value = "{b:2,a:1}" THEN "{a:1,b:2}" ELSE value

\* IsEqual that also compares the order of the keys.
IsEqual_KeyOrder(a, b) == a = b

\* _.isEqual(a, b): deep equality, whatever the order of the keys; [] and {}
\* and "" are three different values.
IsEqual(a, b) == Canonical(a) = Canonical(b)

\* The values a reply's data can take: as JSONParse gives them, plus "" (a
\* reply without a body) and objects that carry a `debug` field.
DebugFull == "{a:1,debug:{mongo:5,php:0,redis:{read_num:2,write_time:7},eth_node:{time:3}}}"
DebugMongo == "{a:1,debug:{mongo:4,mongoTxFast:1,mongoTxFull:2,clickhouse:6}}"

\* The instrumentation channels, by the Stats object of each.
Channels ==
    {"statsMongoTime", "statsMongoTxFullTime", "statsMongoTxFastTime",
     "statsRedisReadNumber", "statsRedisReadTime", "statsRedisWriteNumber",
     "statsRedisWriteTime", "statsEthNodeNumber", "statsEthNodeTime",
     "statsClickHouseTime", "statsPHPTime"}

\* The channels that `if (data.debug) { if (data.debug.mongo) ... }` pushes a
\* sample to: those whose field is present and non-zero.
DebugChannels(data) ==
    CASE data = DebugFull ->
           {"statsMongoTime", "statsRedisReadNumber", "statsRedisWriteTime",
            "statsEthNodeTime"}
      [] data = DebugMongo ->
           {"statsMongoTime", "statsMongoTxFastTime", "statsMongoTxFullTime",
            "statsClickHouseTime"}
      [] OTHER -> {}

\* ---------------------------------------------------------------- headers
\* A header blob of the log is the inside of a JSON object.  ParseHeaders is
\* JSON.parse('{' + blob + '}'): a map from names to values, or SyntaxError.
\* The blobs are drawn from this universe; any other text does not parse.
BaseBlobs ==
    {"", "\"authorization\":\"bearer\"", "\"authorization\":\"Bearer abc\"",
     "\"content-type\":\"json\"", "\"content-type\":\"json\",\"location\":\"/x\"",
     "\"host\":\"h\",\"authorization\":\"Bearer abc\""}

\* The header names of the header-comparison runs: the four evaluateHeaders
\* reads and one it does not.
HeaderNames ==
    {"x-continuation-token", "content-type", "location", "x-total-count", "server"}

Field(name, value) == [name |-> name, value |-> value]

\* The lists of at most MaxHeaderFields fields with different names and
\* values of the given set, in every order.
FieldLists(values) ==
    LET fields == {Field(n, v) : n \in HeaderNames, v \in values}
    IN  {f \in UNION {[1..k -> fields] : k \in 0..MaxHeaderFields} :
            \A a, b \in DOMAIN f : a # b => f[a].name # f[b].name}

\* The text of a header blob with the given fields: "name":"value", ...
RECURSIVE BlobText(_)
BlobText(fields) ==
    IF fields = << >> THEN ""
    ELSE LET first == "\"" \o Head(fields).name \o "\":\"" \o Head(fields).value \o "\""
         IN  IF Len(fields) = 1 THEN first
             ELSE first \o "," \o BlobText(Tail(fields))

\* The object with the given fields.
HeaderMap(fields) ==
    [n \in {fields[k].name : k \in DOMAIN fields} |->
        (CHOOSE f \in {fields[k] : k \in DOMAIN fields} : f.name = n).value]

\* The recorded fields of the header-comparison runs: empty or "a".
OriginalFieldLists == FieldLists({"", "a"})

FieldBlobs == {BlobText(f) : f \in OriginalFieldLists}

\* JSON.parse('{' + blob + '}') of the blobs of FieldBlobs: the object whose
\* text the blob is.
ParseTable ==
    [blob \in FieldBlobs |->
        HeaderMap(CHOOSE f \in OriginalFieldLists : BlobText(f) = blob)]

HeaderBlobs == BaseBlobs \cup FieldBlobs

ParsedBlob(blob) ==
    CASE blob = "" -> << >>
      [] blob = "\"authorization\":\"bearer\"" -> [authorization |-> "bearer"]
      [] blob = "\"authorization\":\"Bearer abc\"" -> [authorization |-> "Bearer abc"]
      [] blob = "\"host\":\"h\",\"authorization\":\"Bearer abc\"" ->
           [host |-> "h", authorization |-> "Bearer abc"]
      [] blob = "\"content-type\":\"json\"" -> ("content-type" :> "json")
      [] blob = "\"content-type\":\"json\",\"location\":\"/x\"" ->
           ("content-type" :> "json") @@ ("location" :> "/x")
      [] OTHER -> ParseTable[blob]

CanParseHeaders(blob) == blob \in HeaderBlobs

\* evaluateHeaders with the values of `location` compared like those of the
\* other three fields.
evaluateHeaders_ComparesLocation(originalHeaders, replayedHeaders) ==
    LET differs(name) ==
            /\ Truthy(Get(originalHeaders, name))
            /\ Get(originalHeaders, name) # Get(replayedHeaders, name)
        location ==
            \/ differs("location")
            \/ ~Truthy(Get(originalHeaders, "location")) /\ Truthy(Get(replayedHeaders, "location"))
    IN  (IF differs("x-continuation-token") THEN <<"x-continuation-token">> ELSE << >>)
        \o (IF differs("content-type") THEN <<"content-type">> ELSE << >>)
        \o (IF location THEN <<"location">> ELSE << >>)
        \o (IF differs("x-total-count") THEN <<"x-total-count">> ELSE << >>)

\* evaluateHeaders(originalHeaders, replayedHeaders): the names of the fields
\* that differ, in the order the function pushes them.
evaluateHeaders(originalHeaders, replayedHeaders) ==
    LET differs(name) ==
            /\ Truthy(Get(originalHeaders, name))
            /\ Get(originalHeaders, name) # Get(replayedHeaders, name)
        location ==
            \/ Truthy(Get(originalHeaders, "location")) /\ ~Truthy(Get(replayedHeaders, "location"))
            \/ ~Truthy(Get(originalHeaders, "location")) /\ Truthy(Get(replayedHeaders, "location"))
    IN  (IF differs("x-continuation-token") THEN <<"x-continuation-token">> ELSE << >>)
        \o (IF differs("content-type") THEN <<"content-type">> ELSE << >>)
        \o (IF location THEN <<"location">> ELSE << >>)
        \o (IF differs("x-total-count") THEN <<"x-total-count">> ELSE << >>)

\* ------------------------------------------------------------------- URLs
\* A request target is a path and a query: a sequence of segments and a
\* sequence of key/value parameters.  String.includes is modelled on whole
\* words: a text includes a word when the word is one of its segments, keys
\* or values.
Url(path, query) == [path |-> path, query |-> query]

Param(k, v) == [k |-> k, v |-> v]

UrlIncludes(url, word) ==
    \/ \E n \in DOMAIN url.path : url.path[n] = word
    \/ \E n \in DOMAIN url.query : url.query[n].k = word \/ url.query[n].v = word

\* row.request.includes(filter): the request line is "<method> <target> ...".
RequestIncludes(request, filter) ==
    request.method = filter \/ UrlIncludes(request.url, filter)

\* searchParams.delete(key)
DeleteParam(query, key) == SelectSeq(query, LAMBDA p : p.k # key)

\* requestUrl of the dispatch loop: with customQueryParams, each parameter is
\* deleted from the target and appended again with the configured value.
RECURSIVE ApplyQueryParams(_, _)
ApplyQueryParams(query, params) ==
    IF params = << >> THEN query
    ELSE ApplyQueryParams(Append(DeleteParam(query, Head(params).k), Head(params)),
                          Tail(params))

ResolveUrl(url, customQueryParams) ==
    IF Len(customQueryParams) # 0
    THEN Url(url.path, ApplyQueryParams(url.query, customQueryParams))
    ELSE url

\* statsUrl of the dispatch loop: the path alone, or the target without the
\* deleteQueryStats parameters.
StatsUrl(requestUrl, statsOnlyPath, deleteQuery) ==
    IF statsOnlyPath THEN Url(requestUrl.path, << >>)
    ELSE Url(requestUrl.path, SelectSeq(requestUrl.query, LAMBDA p : p.k \notin deleteQuery))

\* ------------------------------------------------------------ run options
\* program.opts(): the options the model reads.  ratio is the number the
\* division coerces the option to; startTimestamp is the option as given, in
\* seconds (at most 10 digits).
DefaultArgs ==
    [ratio |-> 1, startTimestamp |-> 0, scaleMode |-> FALSE, skipSleep |-> FALSE,
     stats |-> FALSE, deleteQueryStats |-> {}, statsOnlyPath |-> FALSE,
     filterOnly |-> {}, filterSkip |-> {}, customQueryParams |-> << >>,
     hideStatsLimit |-> 0, summary |-> FALSE]

\* args.startTimestamp after line 206: seconds become milliseconds.
StartTimestamp(option) == option * 1000

\* ----------------------------------------------------------------- the log
\* A row of the log as the parser hands it over.  time_local is the time of
\* the row in whole seconds; Moment(...).unix() * 1000 makes it milliseconds.
Timestamp(row) == row.time_local * 1000

PlainRow ==
    [time_local |-> 1, status |-> "200",
     request |-> [method |-> "GET", url |-> Url(<<"api", "items">>, <<Param("page", "1")>>)],
     req_body |-> "", request_headers |-> "\"host\":\"h\",\"authorization\":\"Bearer abc\"",
     resp_body |-> "{\"a\":1}", resp_headers |-> "\"content-type\":\"json\""]

\* The rows of the classification runs: PlainRow and rows that differ from it
\* in one or two fields, one for each path through the dispatch loop and
\* sendRequest.
Rows ==
    {PlainRow,
     [PlainRow EXCEPT !.status = "404", !.time_local = 2],
     [PlainRow EXCEPT !.status = "404", !.request_headers = ""],
     [PlainRow EXCEPT !.status = "404", !.request_headers = "\"authorization\":\"bearer\""],
     [PlainRow EXCEPT !.status = "503"],
     [PlainRow EXCEPT !.status = "500"],
     [PlainRow EXCEPT !.status = "499", !.time_local = 2],
     [PlainRow EXCEPT !.request.url = Url(<<"artifacts", "7">>, << >>)],
     [PlainRow EXCEPT !.req_body = "{oops"],
     [PlainRow EXCEPT !.req_body = "{oops", !.status = "503"],
     [PlainRow EXCEPT !.req_body = "{oops", !.status = "500"],
     [PlainRow EXCEPT !.request_headers = "oops", !.status = "503"],
     [PlainRow EXCEPT !.request.method = "POST", !.req_body = "{\"a\":1}"],
     [PlainRow EXCEPT !.resp_headers = "oops"],
     [PlainRow EXCEPT !.resp_body = ""]}

\* The rows of the ingestion runs: three request lines at two seconds.
IngestRows ==
    {[PlainRow EXCEPT !.time_local = t, !.request = r] :
        t \in {1, 2},
        r \in {PlainRow.request,
                [method |-> "GET", url |-> Url(<<"api", "users">>, << >>)],
                [method |-> "POST", url |-> Url(<<"api", "items">>, << >>)]}}

\* The rows of the termination runs: the rows of Rows whose request body and
\* header blobs all parse.
LiveRows ==
    {PlainRow,
     [PlainRow EXCEPT !.status = "404", !.time_local = 2],
     [PlainRow EXCEPT !.status = "404", !.request_headers = ""],
     [PlainRow EXCEPT !.status = "503"],
     [PlainRow EXCEPT !.status = "500"],
     [PlainRow EXCEPT !.request.method = "POST", !.req_body = "{\"a\":1}"]}

\* The rows of the endpoint-table runs: three endpoints, one of them with two
\* targets that differ in the query, and a row the loop passes over.
StatsRows ==
    {PlainRow,
     [PlainRow EXCEPT !.request.url = Url(<<"api", "items">>, <<Param("page", "2")>>)],
     [PlainRow EXCEPT !.request.url = Url(<<"api", "users">>, << >>)],
     [PlainRow EXCEPT !.request.url = Url(<<"api", "users">>, << >>), !.time_local = 2],
     [PlainRow EXCEPT !.request.url = Url(<<"api", "users">>, << >>), !.status = "500"]}

\* The rows of the pacing runs: sent or excluded, at one of three seconds.
PaceRows ==
    {[PlainRow EXCEPT !.time_local = t, !.status = st] :
        t \in {1, 2, 3}, st \in {"200", "500"}}

\* ---------------------------------------------------------------- replies
\* What one attempt of axios(config) ends with: no response at all (a
\* transport failure), or a response.
NoResponse == [response |-> FALSE, status |-> "-", headers |-> << >>, data |-> ""]

\* No handler of a request is running.
NoReply == [response |-> FALSE, status |-> "", headers |-> << >>, data |-> ""]

Response(status, headers, data) ==
    [response |-> TRUE, status |-> status, headers |-> headers, data |-> data]

JsonHeaders == ("content-type" :> "json")
HtmlHeaders == ("content-type" :> "html")

Responses ==
    {NoResponse, Response("503", JsonHeaders, "")}
    \cup {Response(st, h, d) :
            st \in {"200", "404"},
            h \in {JsonHeaders, HtmlHeaders},
            d \in {"{a:1}", "{a:2}", Null}}
    \cup {Response(st, JsonHeaders, d) : st \in {"200", "404"}, d \in {"", DebugFull}}

\* response.data of a reply with the given body text: axios parses the text
\* as JSON and keeps the text when it is empty or does not parse.
AxiosData(text) ==
    IF text = "" \/ JSONParse(text) = SyntaxError THEN text ELSE JSONParse(text)

\* The body texts of the comparison runs, recorded and replayed.
BodyTexts == {"", "{\"a\":1}", "{\"a\":2}", "{\"a\":1,\"b\":2}", "{\"b\":2,\"a\":1}"}

\* The rows of the comparison runs: PlainRow with each recorded body, at one
\* of two seconds.
CompareRows ==
    {[PlainRow EXCEPT !.resp_body = text, !.time_local = t] :
        text \in BodyTexts, t \in {1, 2}}

\* The replies of the comparison runs: status and headers as recorded, with
\* each body.
CompareResponses ==
    {Response("200", JsonHeaders, AxiosData(text)) : text \in BodyTexts}

\* The replies of a target that answers every attempt.
LiveResponses == Responses \ {NoResponse}

\* The replies of a target that answers every request as recorded.
\* The rows of the header-comparison runs: PlainRow with each of the blobs of
\* FieldBlobs as its recorded response headers.
HeaderRows == {[PlainRow EXCEPT !.resp_headers = blob] : blob \in FieldBlobs}

\* The replies of the header-comparison runs: the recorded status and body,
\* with no header, one or two of HeaderNames, each empty, "a" or "b".
HeaderResponses ==
    LET names == {{}} \cup {{a, b} : a, b \in HeaderNames}
    IN  {Response("200", headers, "{a:1}") :
            headers \in UNION {[S -> {"", "a", "b"}] : S \in names}}

FaithfulResponses == {Response("200", JsonHeaders, "{a:1}")}

\* validateStatus of axios: a response resolves the promise when its status
\* is 2xx and rejects it otherwise.
Is2xx(status) == status \in {"200", "201", "204"}

\* ------------------------------------------------------------------ state
VARIABLES
    args,                        \* the run options
    server,                      \* the replies the target may give
    log,                         \* the rows of the log file
    input,                       \* the rows of the log not read yet
    dataArray,                   \* the replay event list
    secondsRepeats,              \* scale mode: timestamp -> number of events
    pc,                          \* where the script is
    i,                           \* the index of the dispatch loop
    retryCount,                  \* retries of the request in flight
    retried,                     \* their errors and the delays retryDelay returned
    reply,                       \* what the handlers of the request were called with
    numberOfSuccessfulEvents,
    numberOfFailedEvents,
    numberOfSkippedEvents,
    numberOfHeaderDiscrepancies,
    numberOfBodyDiscrepancies,
    numStats,                    \* number of samples of the latency series
    channels,                    \* channel -> number of samples
    stats,                       \* endpoint -> hit count
    statsKeys,                   \* Object.keys(stats): the endpoints as first hit
    totalSleepTime,
    currentTimestamp,
    slept,                       \* the sleep(timeToSleep) calls: {[i, ms]}
    dispatched,                  \* number of sendRequest calls
    requestsSent,                \* number of axios(config) calls
    resultLines,                 \* number of resultLogger lines
    reports,                     \* the generateReport calls, in order
    noLogs,                      \* 'No logs for the replaying' was logged
    timeline                     \* what the loop did, in order: [what, i]

counters ==
    <<numberOfSuccessfulEvents, numberOfFailedEvents, numberOfSkippedEvents,
      numberOfHeaderDiscrepancies, numberOfBodyDiscrepancies>>

config == <<args, server, log>>

ingest == <<input, dataArray, secondsRepeats>>

observed == <<dispatched, requestsSent, resultLines, reports, noLogs>>

vars ==
    <<args, server, log, input, dataArray, secondsRepeats, pc, i, retryCount, retried, reply,
      numberOfSuccessfulEvents, numberOfFailedEvents, numberOfSkippedEvents,
      numberOfHeaderDiscrepancies, numberOfBodyDiscrepancies, numStats, channels,
      stats, statsKeys, totalSleepTime, currentTimestamp, slept, dispatched,
      requestsSent, resultLines, reports, noLogs, timeline>>

\* All sequences over S of length at most n.
SeqUpTo(S, n) == UNION {[1..k -> S] : k \in 0..n}

\* The state the script is in when parser.read starts, for the given options,
\* target and log.
Start(a, srv, rows) ==
    /\ args = a
    /\ server = srv
    /\ log = rows
    /\ input = rows
    /\ dataArray = << >>
    /\ secondsRepeats = << >>
    /\ pc = "read"
    /\ i = 1
    /\ retryCount = 0
    /\ retried = << >>
    /\ reply = NoReply
    /\ numberOfSuccessfulEvents = 0
    /\ numberOfFailedEvents = 0
    /\ numberOfSkippedEvents = 0
    /\ numberOfHeaderDiscrepancies = 0
    /\ numberOfBodyDiscrepancies = 0
    /\ numStats = 0
    /\ channels = [c \in Channels |-> 0]
    /\ stats = << >>
    /\ statsKeys = << >>
    /\ totalSleepTime = Zero
    /\ currentTimestamp = 0
    /\ slept = {}
    /\ dispatched = 0
    /\ requestsSent = 0
    /\ resultLines = 0
    /\ reports = << >>
    /\ noLogs = FALSE
    /\ timeline = << >>

\* The options of the classification runs: endpoint statistics on, and with
\* or without a custom query parameter.
ClassifyArgs ==
    {[DefaultArgs EXCEPT !.stats = TRUE],
     [DefaultArgs EXCEPT !.stats = TRUE, !.customQueryParams = <<Param("artifacts", "1")>>]}

\* The options of the ingestion runs: with and without a floor, an 'only'
\* filter and a 'skip' filter, in both modes.
IngestArgs ==
    {[DefaultArgs EXCEPT !.startTimestamp = floor, !.filterOnly = only,
                         !.filterSkip = skip, !.scaleMode = sm] :
        floor \in {0, 1}, only \in {{}, {"items", "7"}}, skip \in {{}, {"POST"}},
        sm \in BOOLEAN}

\* The options of the pacing runs.
PaceArgs ==
    {[DefaultArgs EXCEPT !.ratio = r, !.scaleMode = sm] : r \in {1, 2}, sm \in BOOLEAN}
    \cup {[DefaultArgs EXCEPT !.skipSleep = TRUE]}

Init ==
    \E a \in ClassifyArgs, rows \in SeqUpTo(Rows, MaxEvents) :
        Start(a, Responses, rows)

InitCompare ==
    \E rows \in SeqUpTo(CompareRows, MaxCompareEvents) :
        Start(DefaultArgs, CompareResponses, rows)

InitIngest ==
    \E a \in IngestArgs, rows \in SeqUpTo(IngestRows, MaxIngestRows) :
        Start(a, FaithfulResponses, rows)

InitLive ==
    \E a \in ClassifyArgs, rows \in SeqUpTo(LiveRows, MaxLiveEvents) :
        Start(a, LiveResponses, rows)

\* The options of the endpoint-table runs: the table with the whole target or
\* the path alone, and a visibility threshold of 0, 1 or 2 hits.
StatsArgs ==
    {[DefaultArgs EXCEPT !.stats = TRUE, !.statsOnlyPath = only, !.hideStatsLimit = limit] :
        only \in BOOLEAN, limit \in {0, 1, 2}}

InitStats ==
    \E a \in StatsArgs, rows \in SeqUpTo(StatsRows, MaxStatsEvents) :
        Start(a, FaithfulResponses, rows)

\* The header-comparison runs: a log of one row of HeaderRows, or the log of
\* two plain rows a second apart.
InitHeaders ==
    \E rows \in {<<row>> : row \in HeaderRows}
                   \cup {<<PlainRow, [PlainRow EXCEPT !.time_local = 2]>>} :
        Start(DefaultArgs, HeaderResponses, rows)

InitPacing ==
    \E a \in PaceArgs, rows \in SeqUpTo(PaceRows, MaxPaceEvents) :
        Start(a, FaithfulResponses, rows)

\* ----------------------------------------------------------------- report
\* sortedStats: Object.keys(stats) sorted by descending count; the sort is
\* stable, endpoints of one count stay in the order of their first hit.
RECURSIVE SortedStats(_, _, _)
SortedStats(counts, keys, count) ==
    IF count = 0 THEN << >>
    ELSE SelectSeq(keys, LAMBDA x : counts[x] = count)
           \o SortedStats(counts, keys, count - 1)

\* hiddenStats after the forEach: count value -> number of endpoints with
\* that count, for the endpoints the table does not list.
HiddenStats(counts, keys, limit) ==
    LET hiddenKeys == {n \in DOMAIN keys : ~(counts[keys[n]] > limit)}
    IN  [c \in {counts[keys[n]] : n \in hiddenKeys} |->
            Cardinality({n \in hiddenKeys : counts[keys[n]] = c})]

\* `Object.keys(hiddenStats) > 0`: the array of keys is turned into a number
\* through its string, the keys joined by commas: no key gives "" and 0, one
\* key gives that count, several keys give NaN, and NaN > 0 is false.
KeysGreaterThanZero(hiddenStats) ==
    /\ Cardinality(DOMAIN hiddenStats) = 1
    /\ \A c \in DOMAIN hiddenStats : c > 0

NoTable == [counts |-> << >>, listed |-> << >>, hidden |-> << >>, hiddenLine |-> FALSE]

\* The `if (args.stats)` block of generateReport: the lines of the endpoint
\* table in the order they are logged, the hidden histogram, and whether the
\* 'Hidden stats' line is logged.
StatsTable(counts, keys) ==
    LET sortedStats == SortedStats(counts, keys, Len(dataArray))
        hiddenStats == HiddenStats(counts, keys, args.hideStatsLimit)
    IN  [counts |-> counts,
         listed |-> SelectSeq(sortedStats, LAMBDA x : counts[x] > args.hideStatsLimit),
         hidden |-> hiddenStats,
         hiddenLine |-> KeysGreaterThanZero(hiddenStats)]

\* generateReport(): what the report says, from the counters and the
\* endpoint counts it is called with.  The percentage is 100 * successful /
\* total to two decimals, kept in hundredths; it is NaN when the total is 0.
\* The 'Original time' line reads dataArray[dataArray.length - 1].timestamp,
\* which throws a TypeError when dataArray is empty, before the endpoint
\* table.
generateReport(successful, failed, skipped, counts, keys) ==
    LET total == successful + failed + skipped
    IN  [total |-> total, failed |-> failed, skipped |-> skipped,
         percentNaN |-> (total = 0),
         percent |-> IF total = 0 THEN 0 ELSE ToFixed0(10000 * successful, total),
         threw |-> (Len(dataArray) = 0),
         table |-> IF args.stats /\ Len(dataArray) # 0
                   THEN StatsTable(counts, keys)
                   ELSE NoTable,
         at |-> i]

\* The check that ends sendRequest: the report is generated when the three
\* counters add up to dataArray.length.
ReportIfComplete(successful, failed, skipped, counts, keys) ==
    IF failed + successful + skipped = Len(dataArray)
    THEN Append(reports, generateReport(successful, failed, skipped, counts, keys))
    ELSE reports

\* -------------------------------------------------------------- ingestion
\* Accepted with a floor that lets through the rows of its own timestamp.
Accepted_AtFloor(row) ==
    LET isFilterSkip == \E f \in args.filterSkip : RequestIncludes(row.request, f)
        isFilterOnly ==
            \/ Cardinality(args.filterOnly) = 0
            \/ \E f \in args.filterOnly : RequestIncludes(row.request, f)
    IN  Timestamp(row) >= StartTimestamp(args.startTimestamp) /\ isFilterOnly /\ ~isFilterSkip

\* The filter of the row callback.
Accepted(row) ==
    LET isFilterSkip == \E f \in args.filterSkip : RequestIncludes(row.request, f)
        isFilterOnly ==
            \/ Cardinality(args.filterOnly) = 0
            \/ \E f \in args.filterOnly : RequestIncludes(row.request, f)
    IN  Timestamp(row) > StartTimestamp(args.startTimestamp) /\ isFilterOnly /\ ~isFilterSkip

\* The event the row callback pushes to dataArray.
Event(row) ==
    [status |-> row.status, req |-> row.request, body |-> row.req_body,
     headers |-> row.request_headers, timestamp |-> Timestamp(row),
     resp_body |-> row.resp_body, resp_headers |-> row.resp_headers]

\* An entry of the timeline: sendRequest is called for event n ("send"), the
\* promise it returned is fulfilled ("settle"), sleep is called after event
\* n ("sleep"), its timer fires ("wake").
Mark(what, n) == [what |-> what, i |-> n]

\* map[key] += 1, or map[key] = 1 when the key is new.
Increment(map, key) ==
    IF key \in DOMAIN map
    THEN [map EXCEPT ![key] = @ + 1]
    ELSE (key :> 1) @@ map

\* parser.read's row callback, for the next row of the log.
ReadRow ==
    /\ pc = "read"
    /\ input # << >>
    /\ LET row == Head(input)
       IN  /\ input' = Tail(input)
           /\ IF Accepted(row)
              THEN /\ dataArray' = Append(dataArray, Event(row))
                   /\ secondsRepeats' =
                        IF args.scaleMode
                        THEN Increment(secondsRepeats, Timestamp(row))
                        ELSE secondsRepeats
              ELSE UNCHANGED <<dataArray, secondsRepeats>>
    /\ UNCHANGED <<config, pc, i, retryCount, retried, reply, counters, numStats, channels, stats, statsKeys,
                   totalSleepTime, currentTimestamp, slept, observed, timeline>>

\* parser.read's completion callback, up to the dispatch loop.
EndRead ==
    /\ pc = "read"
    /\ input = << >>
    /\ noLogs' = (Len(dataArray) = 0)
    /\ pc' = "loop"
    /\ i' = 1
    /\ UNCHANGED <<config, ingest, retryCount, retried, reply, counters, numStats, channels, stats, statsKeys,
                   totalSleepTime, currentTimestamp, slept, dispatched, requestsSent,
                   resultLines, reports, timeline>>

\* ------------------------------------------------------------ sendRequest
\* ExcludedStatus with the test of 499 forgotten.
ExcludedStatus_Only500(event) == event.status = "500"

\* The dispatch loop's first test: events recorded with status 500 or 499 are
\* passed over.
ExcludedStatus(event) == event.status \in {"500", "499"}

\* The dispatch loop's second test, on the resolved target.
ExcludedUrl(event) ==
    UrlIncludes(ResolveUrl(event.req.url, args.customQueryParams), "artifacts")

\* sendRequest's skip rule, on the parsed request headers.
SkipRule(originalStatus, headers) ==
    \/ /\ originalStatus = "404"
       /\ Get(headers, "authorization") \in {Undefined, Null, "bearer"}
    \/ originalStatus \in {"50", "500", "501", "502", "503", "504", "505"}  \* startsWith('50')

\* BodyParseFails with the skip rule tested first: the body of an event that
\* the skip rule covers is not parsed.
BodyParseFails_UnlessSkipped(event) ==
    /\ Truthy(event.body) /\ JSONParse(event.body) = SyntaxError
    /\ ~(CanParseHeaders(event.headers)
          /\ SkipRule(event.status, ParsedBlob(event.headers)))

\* `if (body) config.data = JSON.parse(body)` throws.
BodyParseFails(event) == Truthy(event.body) /\ JSONParse(event.body) = SyntaxError

\* What the handlers of the axios promise do to the state:
\*   successful, failed, headers, body: added to the counters;
\*   samples: pushed to numStats; pushed: the channels that get a sample;
\*   lines: result lines logged; rejected: the handler threw, so that the
\*   promise sendRequest returns is rejected.
Outcome(successful, failed, headers, body, samples, pushed, lines, rejected) ==
    [successful |-> successful, failed |-> failed, headers |-> headers, body |-> body,
     samples |-> samples, pushed |-> pushed, lines |-> lines, rejected |-> rejected]

\* The `catch (error)` of the then-handler: one more failed event, one more
\* sample, one result line.
Caught(successful) == Outcome(successful, 1, 0, 0, 2, {}, 1, FALSE)

\* .then(function (response) {...}): a 2xx response.
ThenBranch(event, response) ==
    LET respBodyObj ==
            IF Truthy(event.resp_body) THEN JSONParse(event.resp_body) ELSE "[]"
        \* response.data.debug of a null body throws a TypeError
        AfterClassification(successful) ==
            IF response.data = Null
            THEN Caught(successful)
            ELSE Outcome(successful, 0, 0, 0, 1, DebugChannels(response.data), 1, FALSE)
    IN  IF event.status # response.status
        THEN AfterClassification(0)
        ELSE IF ~CanParseHeaders(event.resp_headers)
        THEN Caught(0)
        ELSE IF evaluateHeaders(ParsedBlob(event.resp_headers), response.headers) # << >>
        THEN Outcome(0, 1, 1, 0, 1, {}, 1, FALSE)
        ELSE IF event.req.method # "POST" /\ respBodyObj = SyntaxError
        THEN Caught(0)
        ELSE IF /\ event.req.method # "POST"
                /\ ~IsEmpty(respBodyObj) \/ ~IsEmpty(response.data)
                /\ ~IsEqual(respBodyObj, response.data)
        THEN Outcome(0, 1, 0, 1, 1, {}, 1, FALSE)
        ELSE AfterClassification(1)

\* .catch(function (error) {...}): no response, or a response that is not 2xx.
\* Without a response the handler pushes a sample and then reads `response`,
\* which is not defined in its scope: a ReferenceError, before the result
\* line and before numberOfFailedEvents += 1.  With a response whose data is
\* null, error.response.data.debug throws after the counter is incremented.
CatchBranch(event, error) ==
    LET successful == IF event.status # error.status THEN 0 ELSE 1
        failed == IF event.status # error.status THEN 1 ELSE 0
    IN  IF ~error.response
        THEN Outcome(0, 0, 0, 0, 1, {}, 0, TRUE)
        ELSE IF error.data = Null
        THEN Outcome(successful, failed, 0, 0, 1, {}, 0, TRUE)
        ELSE Outcome(successful, failed, 0, 0, 1, DebugChannels(error.data), 1, FALSE)

\* retryCondition and retries of axiosRetry: an attempt that ends with a 503
\* response is made again.
RetryCondition(error) == error.response /\ error.status = "503"

\* retryDelay of axiosRetry.
RetryDelay(count) == count * RetryDelayStep

\* NextIndex without the increment: the loop stays on the same event.
NextIndex_Same(n) == n

\* `i++` of the dispatch loop.
NextIndex(n) == n + 1

\* One turn of the dispatch loop, up to the first `await` that waits: the
\* event is passed over, or sendRequest is called and returns before any
\* request (body parse error, skip rule), throws (header blob), or calls
\* axios.
Iterate ==
    /\ pc = "loop"
    /\ i <= Len(dataArray)
    /\ LET event == dataArray[i]
           requestUrl == ResolveUrl(event.req.url, args.customQueryParams)
       IN  IF ExcludedStatus(event) \/ ExcludedUrl(event)
           THEN /\ i' = NextIndex(i)
                /\ UNCHANGED <<pc, retryCount, retried, counters, stats, statsKeys, currentTimestamp,
                               dispatched, requestsSent, resultLines, reports, timeline>>
           ELSE /\ i' = i
                /\ retryCount' = 0
                /\ retried' = << >>
                /\ stats' =
                     IF args.stats
                     THEN Increment(stats, StatsUrl(requestUrl, args.statsOnlyPath,
                                                    args.deleteQueryStats))
                     ELSE stats
                /\ statsKeys' =
                     LET statsUrl == StatsUrl(requestUrl, args.statsOnlyPath,
                                              args.deleteQueryStats)
                     IN  IF args.stats /\ statsUrl \notin DOMAIN stats
                         THEN Append(statsKeys, statsUrl)
                         ELSE statsKeys
                /\ currentTimestamp' = event.timestamp
                /\ dispatched' = dispatched + 1
                /\ UNCHANGED <<numberOfSuccessfulEvents, numberOfHeaderDiscrepancies,
                               numberOfBodyDiscrepancies>>
                /\ IF BodyParseFails(event)
                   THEN /\ numberOfFailedEvents' = numberOfFailedEvents + 1
                        /\ resultLines' = resultLines + 1
                        /\ reports' = ReportIfComplete(numberOfSuccessfulEvents,
                                                       numberOfFailedEvents + 1,
                                                       numberOfSkippedEvents,
                                                       stats', statsKeys')
                        /\ pc' = "pace"
                        /\ timeline' = timeline \o <<Mark("send", i), Mark("settle", i)>>
                        /\ UNCHANGED <<numberOfSkippedEvents, requestsSent>>
                   ELSE IF ~CanParseHeaders(event.headers)
                   THEN /\ pc' = "crashed"
                        /\ timeline' = Append(timeline, Mark("send", i))
                        /\ UNCHANGED <<numberOfFailedEvents, numberOfSkippedEvents,
                                       requestsSent, resultLines, reports>>
                   ELSE IF SkipRule(event.status, ParsedBlob(event.headers))
                   THEN /\ numberOfSkippedEvents' = numberOfSkippedEvents + 1
                        /\ resultLines' = resultLines + 1
                        /\ reports' = ReportIfComplete(numberOfSuccessfulEvents,
                                                       numberOfFailedEvents,
                                                       numberOfSkippedEvents + 1,
                                                       stats', statsKeys')
                        /\ pc' = "pace"
                        /\ timeline' = timeline \o <<Mark("send", i), Mark("settle", i)>>
                        /\ UNCHANGED <<numberOfFailedEvents, requestsSent>>
                   ELSE /\ requestsSent' = requestsSent + 1
                        /\ pc' = "request"
                        /\ timeline' = Append(timeline, Mark("send", i))
                        /\ UNCHANGED <<numberOfFailedEvents, numberOfSkippedEvents,
                                       resultLines, reports>>
    /\ UNCHANGED <<config, ingest, reply, numStats, channels, totalSleepTime, slept, noLogs>>

\* One attempt of the request in flight ends with the reply r: a 503 response is
\* retried; anything else runs the then- or the catch-handler and then the
\* final check that generates the report.
Respond ==
    /\ pc = "request"
    /\ \E r \in server :
        IF RetryCondition(r) /\ retryCount < Retries
        THEN /\ retryCount < MaxRetries
             /\ retryCount' = retryCount + 1
             /\ retried' = Append(retried, [error |-> r,
                                             delay |-> RetryDelay(retryCount + 1)])
             /\ UNCHANGED <<pc, reply, counters, numStats, channels, resultLines, reports,
                            timeline>>
        ELSE LET event == dataArray[i]
                 o == IF r.response /\ Is2xx(r.status)
                      THEN ThenBranch(event, r)
                      ELSE CatchBranch(event, r)
             IN  /\ reply' = r
                 /\ numberOfSuccessfulEvents' = numberOfSuccessfulEvents + o.successful
                 /\ numberOfFailedEvents' = numberOfFailedEvents + o.failed
                 /\ numberOfHeaderDiscrepancies' = numberOfHeaderDiscrepancies + o.headers
                 /\ numberOfBodyDiscrepancies' = numberOfBodyDiscrepancies + o.body
                 /\ numStats' = numStats + o.samples
                 /\ channels' = [c \in Channels |->
                                    IF c \in o.pushed THEN channels[c] + 1 ELSE channels[c]]
                 /\ resultLines' = resultLines + o.lines
                 /\ reports' =
                      IF o.rejected THEN reports
                      ELSE ReportIfComplete(numberOfSuccessfulEvents + o.successful,
                                            numberOfFailedEvents + o.failed,
                                            numberOfSkippedEvents, stats, statsKeys)
                 /\ pc' = IF o.rejected THEN "crashed" ELSE "pace"
                 /\ timeline' =
                      IF o.rejected THEN timeline ELSE Append(timeline, Mark("settle", i))
                 /\ UNCHANGED <<retryCount, retried, numberOfSkippedEvents>>
    /\ UNCHANGED <<config, ingest, i, stats, statsKeys, totalSleepTime, currentTimestamp, slept,
                   dispatched, requestsSent, noLogs>>

\* ----------------------------------------------------------------- pacing
\* NormalDelay with the division by args.ratio forgotten.
NormalDelay_IgnoresRatio(event, next, ratio) ==
    Frac(next.timestamp - event.timestamp, 1)

\* NormalDelay with the two timestamps the other way round.
NormalDelay_Backwards(event, next, ratio) == Frac(event.timestamp - next.timestamp, ratio)

\* timeToSleep of the normal mode.
NormalDelay(event, next, ratio) == Frac(next.timestamp - event.timestamp, ratio)

\* ScaleDelay with the second already spent not taken off the gap to the
\* next timestamp.
ScaleDelay_WholeGap(event, next, repeats, ratio) ==
    Frac(ToFixed0(OneSecond, repeats)
           + (IF event.timestamp = next.timestamp
              THEN 0
              ELSE next.timestamp - event.timestamp),
         ratio)

\* timeToSleep of the scale mode.
ScaleDelay(event, next, repeats, ratio) ==
    Frac(ToFixed0(OneSecond, repeats)
           + (IF event.timestamp = next.timestamp
              THEN 0
              ELSE next.timestamp - event.timestamp - OneSecond),
         ratio)

\* ReadsNext with the comparison to the last event's timestamp left out.
ReadsNext_Always(n) == ~args.skipSleep

\* The guard of the pacing block: in both modes the block reads
\* dataArray[i + 1].timestamp when it is entered.
ReadsNext(n) ==
    /\ ~args.skipSleep
    /\ dataArray[n].timestamp # dataArray[Len(dataArray)].timestamp

\* Whether the loop computes a delay after dataArray[i]: not with skipSleep,
\* not for an event of the last event's timestamp, and in the normal mode not
\* when the next event has the same timestamp.
Sleeps(n) ==
    /\ ReadsNext(n)
    /\ args.scaleMode \/ dataArray[n].timestamp # dataArray[n + 1].timestamp

\* After sendRequest has returned (its handlers are done): the delay is computed, added to
\* totalSleepTime and waited for, or the loop goes on at once.  Reading
\* dataArray[i + 1] past the end would throw a TypeError.
Pace ==
    /\ pc = "pace"
    /\ IF ReadsNext(i) /\ i + 1 > Len(dataArray)
       THEN /\ pc' = "crashed"
            /\ UNCHANGED <<i, totalSleepTime, slept, timeline>>
       ELSE IF Sleeps(i)
       THEN LET timeToSleep ==
                    IF args.scaleMode
                    THEN ScaleDelay(dataArray[i], dataArray[i + 1],
                                    secondsRepeats[dataArray[i].timestamp], args.ratio)
                    ELSE NormalDelay(dataArray[i], dataArray[i + 1], args.ratio)
            IN  /\ totalSleepTime' = FracAdd(totalSleepTime, timeToSleep)
                /\ slept' = slept \cup {[i |-> i, ms |-> timeToSleep]}
                /\ pc' = "sleep"
                /\ i' = i
                /\ timeline' = Append(timeline, Mark("sleep", i))
       ELSE /\ pc' = "loop"
            /\ i' = NextIndex(i)
            /\ UNCHANGED <<totalSleepTime, slept, timeline>>
    /\ reply' = NoReply
    /\ UNCHANGED <<config, ingest, retryCount, retried, counters, numStats, channels, stats, statsKeys,
                   currentTimestamp, observed>>

\* The timer of sleep(timeToSleep) fires.
Wake ==
    /\ pc = "sleep"
    /\ pc' = "loop"
    /\ i' = NextIndex(i)
    /\ timeline' = Append(timeline, Mark("wake", i))
    /\ UNCHANGED <<config, ingest, retryCount, retried, reply, counters, numStats, channels, stats, statsKeys,
                   totalSleepTime, currentTimestamp, slept, observed>>

\* The dispatch loop ends: the completion callback returns.
Finish ==
    /\ pc = "loop"
    /\ i > Len(dataArray)
    /\ pc' = "done"
    /\ UNCHANGED <<config, ingest, i, retryCount, retried, reply, counters, numStats, channels, stats, statsKeys,
                   totalSleepTime, currentTimestamp, slept, observed, timeline>>

\* The SIGINT handler: it runs between two callbacks, that is while the log
\* is read, while a request is in flight or while the loop sleeps.  It
\* generates the report and exits; a report that throws ends the process
\* with the uncaught exception.
Sigint ==
    /\ pc \in {"read", "request", "sleep"}
    /\ LET report == generateReport(numberOfSuccessfulEvents, numberOfFailedEvents,
                                     numberOfSkippedEvents, stats, statsKeys)
       IN  /\ reports' = Append(reports, report)
           /\ pc' = IF report.threw THEN "crashed" ELSE "exited"
    /\ UNCHANGED <<config, ingest, i, retryCount, retried, reply, counters, numStats, channels, stats, statsKeys,
                   totalSleepTime, currentTimestamp, slept, dispatched, requestsSent,
                   resultLines, noLogs, timeline>>

Next ==
    \/ ReadRow
    \/ EndRead
    \/ Iterate
    \/ Respond
    \/ Pace
    \/ Wake
    \/ Finish
    \/ Sigint

\* The classification runs: logs of every kind of row, a target that may
\* give any reply.
Spec == Init /\ [][Next]_vars

\* The pacing runs: longer logs of sent and excluded rows at three seconds,
\* in both modes and at two ratios, a target that answers as recorded.
SpecPacing == InitPacing /\ [][Next]_vars

\* The comparison runs: rows that differ in their recorded body, a target
\* that answers with the recorded status and headers and any of the bodies.
SpecCompare == InitCompare /\ [][Next]_vars

\* The ingestion runs: logs of rows that the floor and the filters keep or
\* drop, replayed against a target that answers as recorded.
SpecIngest == InitIngest /\ [][Next]_vars

\* The event loop runs every callback that is ready: the rows are delivered,
\* the completion callback is called, every attempt of a request ends, every
\* timer fires.  The interrupt may or may not come.
Fairness ==
    /\ WF_vars(ReadRow) /\ WF_vars(EndRead)
    /\ WF_vars(Iterate) /\ WF_vars(Respond)
    /\ WF_vars(Pace) /\ WF_vars(Wake) /\ WF_vars(Finish)

\* The termination runs: well-formed rows, a target that answers every
\* attempt and gives a bounded number of 503 replies, a fair event loop.
SpecStats == InitStats /\ [][Next]_vars

SpecHeaders == InitHeaders /\ [][Next]_vars

SpecLive == InitLive /\ [][Next]_vars /\ Fairness

\* ------------------------------------------------------------- properties
\* The events counted so far.
Counted == numberOfSuccessfulEvents + numberOfFailedEvents + numberOfSkippedEvents

\* Event n is passed over by the dispatch loop: recorded status 500 or 499,
\* or a resolved target that contains "artifacts".
IsExcluded(n) ==
    \/ dataArray[n].status = "500"
    \/ dataArray[n].status = "499"
    \/ UrlIncludes(ResolveUrl(dataArray[n].req.url, args.customQueryParams), "artifacts")

\* The handlers of the request of event i have run in this step, for reply'.
Handled == pc = "request" /\ pc' \in {"pace", "crashed"}

\* The sleep calls made after event n, and the time they were given.
SleptAfter(n) == {e \in slept : e.i = n}

RECURSIVE SumSlept(_, _)
SumSlept(lo, hi) ==
    IF lo > hi THEN Zero
    ELSE LET rest == SumSlept(lo + 1, hi)
         IN  IF SleptAfter(lo) = {} THEN rest
             ELSE FracAdd((CHOOSE e \in SleptAfter(lo) : TRUE).ms, rest)

\* C1: at every point between two events and at the end of the run, the three
\* counters add up to the number of events handed to sendRequest.
Claim1_CountersAddUp ==
    pc \in {"loop", "pace", "sleep", "done"} => Counted = dispatched

\* C2: a response whose status differs from the recorded one makes the event
\* Failed (failed + 1, successful unchanged) without any header or body
\* comparison, for 2xx and non-2xx replies alike.
Claim2_StatusMismatchFails ==
    [][(Handled /\ reply'.response /\ reply'.status # dataArray[i].status)
         => /\ numberOfFailedEvents' = numberOfFailedEvents + 1
            /\ numberOfSuccessfulEvents' = numberOfSuccessfulEvents
            /\ numberOfHeaderDiscrepancies' = numberOfHeaderDiscrepancies
            /\ numberOfBodyDiscrepancies' = numberOfBodyDiscrepancies]_vars

\* C3: no error of one event aborts the run: whatever sendRequest meets, the
\* loop goes on to the pacing of the event.
Claim3_ErrorsAreLocal ==
    [][(pc \in {"loop", "request"}) => (pc' # "crashed")]_vars

\* C4: a request that gets no response at all makes the event Failed: failed
\* + 1, successful and skipped unchanged.
Claim4_NoResponseFails ==
    [][(Handled /\ reply' = NoResponse)
         => /\ numberOfFailedEvents' = numberOfFailedEvents + 1
            /\ numberOfSuccessfulEvents' = numberOfSuccessfulEvents
            /\ numberOfSkippedEvents' = numberOfSkippedEvents]_vars

\* C5: an uninterrupted run over a non-empty list generates the report
\* exactly once, and no event is dispatched after it; also when events of the
\* list are excluded.
Claim5_ReportOnceAtEnd ==
    (pc = "done" /\ Len(dataArray) > 0)
        => /\ Len(reports) = 1
           /\ \A n \in 1..Len(dataArray) : n > reports[1].at => IsExcluded(n)

\* C6: when no event survives the filter, 'No logs' is logged and a report is
\* produced with total, failed and skipped 0, whose percentage is not 0 / 0
\* and which reads no first or last event.
Claim6_EmptyRunReport ==
    (pc = "done" /\ Len(dataArray) = 0)
        => /\ noLogs
           /\ Len(reports) = 1
           /\ \A k \in DOMAIN reports :
                /\ reports[k].total = 0 /\ reports[k].failed = 0 /\ reports[k].skipped = 0
                /\ ~reports[k].percentNaN
                /\ ~reports[k].threw

\* C7 as claimed: normal mode, skip-sleep off: between the dispatches of two
\* consecutive non-excluded events with timestamps t1 <= t2 the loop waits
\* (t2 - t1) / ratio, wherever they lie and whether or not excluded events lie
\* between them.
Claim7_DelayBetweenSentEvents ==
    (pc = "done" /\ ~args.scaleMode /\ ~args.skipSleep)
        => \A n, m \in 1..Len(dataArray) :
             (/\ n < m
              /\ ~IsExcluded(n) /\ ~IsExcluded(m)
              /\ \A k \in (n + 1)..(m - 1) : IsExcluded(k)
              /\ dataArray[n].timestamp <= dataArray[m].timestamp)
             => SumSlept(n, m - 1)
                  = Frac(dataArray[m].timestamp - dataArray[n].timestamp, args.ratio)

\* C7 amended: normal mode, skip-sleep off: the delay after a dispatched event
\* is taken from the event that follows it in the list, excluded or not: the
\* loop sleeps (t[n+1] - t[n]) / ratio after event n when t[n] differs from
\* t[n+1] and from the last event's timestamp, and does not sleep otherwise;
\* it never sleeps after an excluded event.
Theorem7_DelayToNextListEvent ==
    (~args.scaleMode /\ ~args.skipSleep)
        => \A n \in 1..Len(dataArray) :
             (n < i \/ (n = i /\ pc = "sleep"))
             => IF \/ IsExcluded(n)
                   \/ dataArray[n].timestamp = dataArray[Len(dataArray)].timestamp
                   \/ dataArray[n].timestamp = dataArray[n + 1].timestamp
                THEN SleptAfter(n) = {}
                ELSE SleptAfter(n) =
                       {[i |-> n,
                         ms |-> Frac(dataArray[n + 1].timestamp - dataArray[n].timestamp,
                                     args.ratio)]}

\* C7 witness: at ratio 2, a run has ended in which an excluded event at
\* second 2 lies between two dispatched events at seconds 1 and 3, and the
\* loop has slept 500 ms after the first.
Witness7_ExcludedBetween ==
    /\ pc = "done" /\ ~args.scaleMode /\ ~args.skipSleep /\ args.ratio = 2
    /\ Len(dataArray) = 3
    /\ ~IsExcluded(1) /\ IsExcluded(2) /\ ~IsExcluded(3)
    /\ dataArray[1].timestamp = 1000 /\ dataArray[2].timestamp = 2000
    /\ dataArray[3].timestamp = 3000
    /\ slept = {[i |-> 1, ms |-> Frac(500, 1)]}

\* The events n..m are all the events of one timestamp, and the event after
\* them is one second later.
IsSecond(n, m) ==
    /\ n <= m /\ m < Len(dataArray)
    /\ \A k \in 1..Len(dataArray) :
         (dataArray[k].timestamp = dataArray[n].timestamp) <=> (n <= k /\ k <= m)
    /\ dataArray[m + 1].timestamp = dataArray[n].timestamp + 1000

\* q is 1000 / r rounded to the nearest integer.
IsRounded(q, r) == 2 * Abs(r * q - 1000) <= r

\* C8 as claimed: scale mode, ratio 1: the delays of the R events of one
\* second that is followed at once by the next second add up to
\* R * round(1000 / R).
Claim8_SecondAddsUp ==
    (args.scaleMode /\ ~args.skipSleep /\ args.ratio = 1)
        => \A n, m \in 1..Len(dataArray) :
             (IsSecond(n, m) /\ m < i)
             => \E q \in 0..1000 :
                  /\ IsRounded(q, m - n + 1)
                  /\ SumSlept(n, m) = Frac((m - n + 1) * q, 1)

\* C8 amended: scale mode, ratio 1: the delays of the R events of one second
\* that is followed at once by the next second add up to D * round(1000 / R),
\* D being the number of those events that are not excluded: R counts the
\* excluded events, but no delay is computed for them.
Theorem8_SecondAddsUpOverSent ==
    (args.scaleMode /\ ~args.skipSleep /\ args.ratio = 1)
        => \A n, m \in 1..Len(dataArray) :
             (IsSecond(n, m) /\ m < i)
             => \E q \in 0..1000 :
                  /\ IsRounded(q, m - n + 1)
                  /\ SumSlept(n, m)
                       = Frac(Cardinality({k \in n..m : ~IsExcluded(k)}) * q, 1)

\* C8 witness: scale mode at ratio 1, three events share second 1, the
\* second of them is excluded, the fourth event is at second 2, and the loop
\* has slept 333 ms after the first and after the third.
Witness8_ThreeInOneSecond ==
    /\ pc = "done" /\ args.scaleMode /\ ~args.skipSleep /\ args.ratio = 1
    /\ Len(dataArray) = 4
    /\ IsSecond(1, 3)
    /\ ~IsExcluded(1) /\ IsExcluded(2) /\ ~IsExcluded(3) /\ ~IsExcluded(4)
    /\ slept = {[i |-> 1, ms |-> Frac(333, 1)], [i |-> 3, ms |-> Frac(333, 1)]}

\* C9: an excluded event (recorded status 500 or 499, or "artifacts" in the
\* resolved target) is passed over: no request, no counter, no sample, no
\* endpoint hit, no sleep; the loop goes straight to the next event.
Theorem9_ExcludedUntouched ==
    [][(pc = "loop" /\ i <= Len(dataArray) /\ IsExcluded(i))
         => /\ UNCHANGED <<counters, numStats, channels, stats, totalSleepTime, slept>>
            /\ UNCHANGED <<dispatched, requestsSent, resultLines>>
            /\ pc' = "loop"
            /\ i' = i + 1]_vars

\* C9 witness: the loop has passed over an event recorded with status 499
\* that follows a counted event, and nothing but that one event shows in the
\* counters, the endpoint hits and the sleep time.
Witness9_PassedOver ==
    /\ pc = "loop" /\ i = 3
    /\ ~IsExcluded(1) /\ dataArray[2].status = "499"
    /\ dataArray[1].timestamp # dataArray[2].timestamp
    /\ dispatched = 1 /\ Counted = 1
    /\ Cardinality(slept) = 1

\* The recorded request decides the skip rule: status 404 without an
\* authorization header or with the placeholder "bearer", or a status that
\* begins with "50".
RecordedSkip(event) ==
    \/ event.status \in {"501", "502", "503", "504"}
    \/ /\ event.status = "404"
       /\ \/ event.headers = ""
          \/ event.headers = "\"authorization\":\"bearer\""

\* C10: an event that reaches sendRequest with an absent or parseable body
\* and that the skip rule covers is Skipped: skipped + 1, no request, no
\* latency sample, one result line.
Claim10_SkipRule ==
    [][(/\ pc = "loop" /\ i <= Len(dataArray) /\ ~IsExcluded(i)
        /\ dataArray[i].body = "" \/ JSONParse(dataArray[i].body) # SyntaxError
        /\ RecordedSkip(dataArray[i]))
         => /\ numberOfSkippedEvents' = numberOfSkippedEvents + 1
            /\ requestsSent' = requestsSent
            /\ numStats' = numStats
            /\ resultLines' = resultLines + 1]_vars

\* The recorded request body of event n is present and is not JSON.
MalformedBody(n) ==
    dataArray[n].body # "" /\ JSONParse(dataArray[n].body) = SyntaxError

\* sendRequest has ended event n as a body parse failure: failed + 1 and
\* nothing else counted, no request, no latency sample.
BodyFailure ==
    /\ numberOfFailedEvents' = numberOfFailedEvents + 1
    /\ numberOfSuccessfulEvents' = numberOfSuccessfulEvents
    /\ numberOfSkippedEvents' = numberOfSkippedEvents
    /\ requestsSent' = requestsSent
    /\ numStats' = numStats

\* C11 as stated: the turn of the loop that comes to an event whose recorded
\* request body is present and is not JSON ends it as Failed: failed + 1, no
\* request, no latency sample, whatever its recorded status.
Claim11_BodyParseErrorFails ==
    [][(pc = "loop" /\ i <= Len(dataArray) /\ MalformedBody(i)) => BodyFailure]_vars

\* C11 amended: the same of every event that is not excluded (recorded status
\* other than 500 and 499, no "artifacts" in the target), the statuses of the
\* skip rule included; an excluded event never reaches the body check.
Theorem11_BodyParseErrorFailsUnlessExcluded ==
    [][(pc = "loop" /\ i <= Len(dataArray) /\ MalformedBody(i) /\ ~IsExcluded(i))
         => BodyFailure /\ pc' = "pace"]_vars

\* C11 witness: an event recorded with status 503, which the skip rule
\* covers, and with the body "{oops" has been counted failed, without a
\* request and without a sample.
Witness11_MalformedBodyOf503 ==
    /\ pc = "pace" /\ i = 1
    /\ dataArray[1].status = "503" /\ dataArray[1].body = "{oops"
    /\ numberOfFailedEvents = 1 /\ numberOfSkippedEvents = 0
    /\ numberOfSuccessfulEvents = 0
    /\ requestsSent = 0 /\ numStats = 0

\* The header fields the comparison reads besides `location`.
ComparedFields == {"x-continuation-token", "content-type", "x-total-count"}

\* The replayed headers differ from the recorded ones: a field present in
\* the recorded headers has another value or is missing, or `location` is
\* present on one side only.
HeadersDiffer(original, replayed) ==
    \/ \E f \in ComparedFields \cap DOMAIN original :
         f \notin DOMAIN replayed \/ replayed[f] # original[f]
    \/ ("location" \in DOMAIN original) # ("location" \in DOMAIN replayed)

\* C12: a response whose status equals the recorded one and whose headers
\* differ from the recorded ones makes the event Failed with a header
\* discrepancy, never successful, for 2xx and non-2xx replies alike.
Claim12_HeaderMismatchFails ==
    [][(/\ Handled /\ reply'.response
        /\ reply'.status = dataArray[i].status
        /\ CanParseHeaders(dataArray[i].resp_headers)
        /\ HeadersDiffer(ParsedBlob(dataArray[i].resp_headers), reply'.headers))
         => /\ numberOfFailedEvents' = numberOfFailedEvents + 1
            /\ numberOfHeaderDiscrepancies' = numberOfHeaderDiscrepancies + 1
            /\ numberOfSuccessfulEvents' = numberOfSuccessfulEvents]_vars

\* The recorded response body of event n as a value: "" when the log has
\* none.
RecordedBody(n) ==
    IF dataArray[n].resp_body = "" THEN "" ELSE JSONParse(dataArray[n].resp_body)

\* The handlers run in this step for a response to a non-POST event whose
\* status and headers are the recorded ones and whose recorded body can be
\* read.
BodyCompared ==
    /\ Handled /\ reply'.response
    /\ dataArray[i].req.method # "POST"
    /\ reply'.status = dataArray[i].status
    /\ CanParseHeaders(dataArray[i].resp_headers)
    /\ ~HeadersDiffer(ParsedBlob(dataArray[i].resp_headers), reply'.headers)
    /\ RecordedBody(i) # SyntaxError

\* C13: a non-POST event whose status and headers match is Failed with a
\* body discrepancy exactly when the recorded body and the replayed body are
\* both non-empty and not deeply equal, and is successful otherwise, so
\* whenever one of the two bodies is empty.
Claim13_BodyMismatchIffBothNonEmpty ==
    [][BodyCompared
         => IF /\ ~IsEmpty(RecordedBody(i)) /\ ~IsEmpty(reply'.data)
               /\ ~IsEqual(RecordedBody(i), reply'.data)
            THEN /\ numberOfFailedEvents' = numberOfFailedEvents + 1
                 /\ numberOfBodyDiscrepancies' = numberOfBodyDiscrepancies + 1
                 /\ numberOfSuccessfulEvents' = numberOfSuccessfulEvents
            ELSE /\ numberOfSuccessfulEvents' = numberOfSuccessfulEvents + 1
                 /\ numberOfFailedEvents' = numberOfFailedEvents
                 /\ numberOfBodyDiscrepancies' = numberOfBodyDiscrepancies]_vars

\* C14: a response whose body has the structural content of the recorded
\* body, whatever the order of the keys of either, never registers a body
\* discrepancy: numberOfBodyDiscrepancies is left unchanged.
Theorem14_SameContentNoBodyDiscrepancy ==
    [][(/\ Handled /\ reply'.response
        /\ RecordedBody(i) # SyntaxError
        /\ Canonical(RecordedBody(i)) = Canonical(reply'.data))
         => numberOfBodyDiscrepancies' = numberOfBodyDiscrepancies]_vars

\* C14 witness: the recorded body is {"a":1,"b":2}, the replayed body has
\* the same members with b first, and the event has been counted successful
\* without a body discrepancy.
Witness14_KeysInOtherOrder ==
    /\ pc = "pace" /\ i = 1
    /\ dataArray[1].resp_body = "{\"a\":1,\"b\":2}"
    /\ reply.response /\ reply.data = "{b:2,a:1}"
    /\ numberOfSuccessfulEvents = 1 /\ numberOfFailedEvents = 0
    /\ numberOfBodyDiscrepancies = 0

\* An attempt of the request in flight has ended in this step and the
\* request is sent again.
Resent == pc = "request" /\ retryCount' = retryCount + 1

\* C15: a request is sent again exactly when the attempt ended with a 503
\* response, the k-th time after a wait of k * 2000 ms, and an attempt that
\* is followed by another one counts nothing and logs no result line: an
\* event that was retried is counted once, when its last attempt has ended.
Claim15_RetryOn503Only ==
    [][/\ Resent
          => /\ retried'[retryCount'].error.response
             /\ retried'[retryCount'].error.status = "503"
             /\ retried'[retryCount'].delay = retryCount' * 2000
             /\ UNCHANGED <<counters, resultLines>>
       /\ Handled
          => /\ ~(reply'.response /\ reply'.status = "503")
             /\ retryCount > 0 => Counted' = Counted + 1]_vars

\* The SIGINT handler has run in this step: it has called generateReport and
\* the process has ended, by process.exit() or by the exception the report
\* threw.
Interrupted ==
    /\ pc \notin {"exited", "crashed"}
    /\ pc' \in {"exited", "crashed"}
    /\ Len(reports') = Len(reports) + 1

\* C16: an interrupt, whenever it arrives, also before any event is ingested
\* or processed, generates the report once, whole and from the counters as
\* they are, and the process then exits; nothing is dispatched or counted
\* after it.
Claim16_InterruptReportsOnceAndExits ==
    [][/\ Interrupted
          => /\ pc' = "exited"
             /\ Len(reports') = 1
             /\ ~reports'[1].threw
             /\ reports'[1].total = Counted
             /\ reports'[1].failed = numberOfFailedEvents
             /\ reports'[1].skipped = numberOfSkippedEvents
       /\ pc \in {"exited", "crashed"} => UNCHANGED vars]_vars

\* The entries of the timeline before position k that are about event n.
Before(k, what, n) == {m \in 1..(k - 1) : timeline[m] = Mark(what, n)}

ReturnedAtOnce == dispatched' = dispatched + 1 /\ pc' = "pace"

\* C18: every event that goes to sendRequest gets exactly one result line,
\* whatever its outcome: skipped, body parse error, or a request that ends
\* with a response or without one.
Claim18_OneResultLinePerEvent ==
    [][(ReturnedAtOnce \/ Handled) => resultLines' = resultLines + 1]_vars

\* C19: for every response received, whatever the event is classified as,
\* each channel whose field is present and non-zero in the debug payload of
\* the response gains one sample and the other channels none; and no step
\* but the handling of a response adds a sample to a channel.
Claim19_ChannelsFollowDebugPayload ==
    [][IF Handled /\ reply'.response
       THEN \A c \in Channels :
              channels'[c] = channels[c] + (IF c \in DebugChannels(reply'.data) THEN 1 ELSE 0)
       ELSE channels' = channels]_vars

\* The rows of the log that the row callback has been called with.
RowsRead == SubSeq(log, 1, Len(log) - Len(input))

\* The request line of the row has the word in it.
Contains(row, word) ==
    \/ row.request.method = word
    \/ \E n \in DOMAIN row.request.url.path : row.request.url.path[n] = word
    \/ \E n \in DOMAIN row.request.url.query :
         word \in {row.request.url.query[n].k, row.request.url.query[n].v}

\* The row is to be replayed: later than the floor, with one of the 'only'
\* words if there are any, and with none of the 'skip' words.
Kept(row) ==
    /\ row.time_local * 1000 > args.startTimestamp * 1000
    /\ args.filterOnly = {} \/ \E f \in args.filterOnly : Contains(row, f)
    /\ \A f \in args.filterSkip : ~Contains(row, f)

\* C20: the event list is the rows read so far that are to be replayed, in
\* the order of the log; in scale mode the repeat count of a timestamp is the
\* number of events of the list that have it.
Theorem20_ListIsFilteredLog ==
    LET kept == SelectSeq(RowsRead, Kept)
    IN  /\ Len(dataArray) = Len(kept)
        /\ \A k \in DOMAIN kept :
             /\ dataArray[k].timestamp = kept[k].time_local * 1000
             /\ dataArray[k].req = kept[k].request
             /\ dataArray[k].status = kept[k].status
        /\ args.scaleMode
             => /\ DOMAIN secondsRepeats = {dataArray[k].timestamp : k \in DOMAIN dataArray}
                /\ \A t \in DOMAIN secondsRepeats :
                     secondsRepeats[t]
                       = Cardinality({k \in DOMAIN dataArray : dataArray[k].timestamp = t})

\* C20 witness: with the floor at second 1, the 'only' words items and 7 and
\* the 'skip' word POST, in scale mode, a log of three rows has been read:
\* the first is at the floor, the second is kept, the third is a POST; the
\* list is the second row alone.
Witness20_OneOfThreeKept ==
    /\ pc = "loop" /\ Len(log) = 3 /\ input = << >>
    /\ args.startTimestamp = 1 /\ args.filterOnly # {} /\ args.filterSkip # {}
    /\ args.scaleMode
    /\ log[1].time_local = 1 /\ log[1].request = PlainRow.request
    /\ log[2].time_local = 2 /\ log[2].request = PlainRow.request
    /\ log[3].request.method = "POST"
    /\ Len(dataArray) = 1 /\ dataArray[1].timestamp = 2000
    /\ secondsRepeats[2000] = 1

\* Every row of the log is well-formed: its request body is absent or JSON,
\* its header blobs are the inside of a JSON object.
WellFormedLog ==
    \A n \in DOMAIN log :
        /\ log[n].req_body = "" \/ JSONParse(log[n].req_body) # SyntaxError
        /\ log[n].resp_body = "" \/ JSONParse(log[n].resp_body) # SyntaxError
        /\ log[n].request_headers \in HeaderBlobs
        /\ log[n].resp_headers \in HeaderBlobs

\* The run was ended by an interrupt.
EndedBySigint == pc = "exited" \/ (pc = "crashed" /\ Len(dataArray) = 0)

\* The dispatch loop has come to every event of the list.
VisitedAll ==
    /\ pc # "read"
    /\ \/ i > Len(dataArray)
       \/ i = Len(dataArray) /\ pc \in {"request", "pace", "sleep", "crashed"}

\* C21: when every attempt gets a response, only finitely many of them a
\* 503, and the rows are well-formed, the loop comes to every event of the
\* list and the run ends, unless it is interrupted.
Claim21_RunVisitsEveryEvent ==
    WellFormedLog => <>((VisitedAll /\ pc \in {"done", "crashed"}) \/ EndedBySigint)

\* The endpoint table of report r lists exactly the endpoints with more hits
\* than the threshold, each once, in non-increasing order of hits.
ListsVisible(r) ==
    LET t == r.table
    IN  /\ {t.listed[n] : n \in DOMAIN t.listed}
             = {x \in DOMAIN t.counts : t.counts[x] > args.hideStatsLimit}
        /\ \A m, n \in DOMAIN t.listed :
              m < n => t.listed[m] # t.listed[n] /\ t.counts[t.listed[m]] >= t.counts[t.listed[n]]

\* The endpoints report r does not list.
HiddenEndpoints(r) ==
    {x \in DOMAIN r.table.counts : r.table.counts[x] <= args.hideStatsLimit}

\* The hidden histogram of report r counts every hidden endpoint under its
\* number of hits.
CountsHidden(r) ==
    /\ DOMAIN r.table.hidden = {r.table.counts[x] : x \in HiddenEndpoints(r)}
    /\ \A c \in DOMAIN r.table.hidden :
          r.table.hidden[c] = Cardinality({x \in HiddenEndpoints(r) : r.table.counts[x] = c})

\* The reports that get as far as the endpoint table.
TableReports == {n \in DOMAIN reports : args.stats /\ ~reports[n].threw}

\* C22: the endpoint table lists exactly the endpoints with more hits than
\* the threshold, in non-increasing order of hits; every other endpoint is
\* counted in the hidden histogram under its count; and whenever an endpoint
\* is hidden the hidden summary is logged.
Claim22_EndpointTable ==
    \A n \in TableReports :
        /\ ListsVisible(reports[n])
        /\ CountsHidden(reports[n])
        /\ HiddenEndpoints(reports[n]) # {} => reports[n].table.hiddenLine

\* The three fields whose values are compared, and the four fields read.
ValueFields == {"x-continuation-token", "content-type", "x-total-count"}

FourFields == ValueFields \cup {"location"}

\* The header map h without the headers that are not among the four.
OnlyFour(h) == [n \in DOMAIN h \cap FourFields |-> h[n]]

IsPresent(h, n) == n \in DOMAIN h

IsNonEmpty(h, n) == n \in DOMAIN h /\ h[n] # ""

\* The names in the list d.
Reported(d) == {d[k] : k \in DOMAIN d}

\* In this step the then-handler runs on a reply with the recorded status,
\* that is, it compares the headers.
HeadersCompared ==
    /\ Handled
    /\ reply'.response
    /\ reply'.status \in {"200", "201", "204"}
    /\ reply'.status = dataArray[i].status

\* C23: the result of evaluateHeaders depends only on the four fields of the
\* two maps: `location` is reported iff it is present in exactly one of them,
\* each of the other three iff it is present in the original and the replay
\* value differs or is absent, and no header besides the four changes the
\* result.
Claim23_HeadersByPresence ==
    [][HeadersCompared =>
         LET o == ParsedBlob(dataArray[i].resp_headers)
             r == reply'.headers
             d == evaluateHeaders(o, r)
         IN  /\ Reported(d) \subseteq FourFields
             /\ d = evaluateHeaders(OnlyFour(o), OnlyFour(r))
             /\ "location" \in Reported(d)
                   <=> (IsPresent(o, "location") # IsPresent(r, "location"))
             /\ \A n \in ValueFields :
                   n \in Reported(d)
                     <=> (IsPresent(o, n) /\ (~IsPresent(r, n) \/ r[n] # o[n]))]_vars

\* C23 amended: the same with "present" read as "present with a non-empty
\* value": `location` is reported iff it is non-empty in exactly one of the
\* maps, each of the other three iff it is non-empty in the original and the
\* replay value differs or is absent; each name is reported once, and the
\* event is counted as a header discrepancy iff a name is reported.
Theorem23_HeadersByNonEmptyValue ==
    [][HeadersCompared =>
         LET o == ParsedBlob(dataArray[i].resp_headers)
             r == reply'.headers
             d == evaluateHeaders(o, r)
         IN  /\ Reported(d) \subseteq FourFields
             /\ Cardinality(Reported(d)) = Len(d)
             /\ d = evaluateHeaders(OnlyFour(o), OnlyFour(r))
             /\ "location" \in Reported(d)
                   <=> (IsNonEmpty(o, "location") # IsNonEmpty(r, "location"))
             /\ \A n \in ValueFields :
                   n \in Reported(d)
                     <=> (IsNonEmpty(o, n) /\ (~IsPresent(r, n) \/ r[n] # o[n]))
             /\ (d # << >>)
                   <=> (numberOfHeaderDiscrepancies' = numberOfHeaderDiscrepancies + 1)]_vars

\* C23 witness: `location` was recorded as "a" and replayed as "b", next to
\* a header that is not compared; the event is a success and no header
\* discrepancy is counted.
Witness23_LocationValuesDiffer ==
    /\ pc = "pace"
    /\ i = 1
    /\ dataArray[1].resp_headers = "\"server\":\"a\",\"location\":\"a\""
    /\ reply.response
    /\ DOMAIN reply.headers = {"location"}
    /\ reply.headers["location"] = "b"
    /\ numberOfSuccessfulEvents = 1
    /\ numberOfHeaderDiscrepancies = 0

\* C24: the pacing step never reads past the end of the list, in both modes
\* and for every list: it never throws, and a delay is computed only after
\* an event that has a next event and whose timestamp is not the last
\* event's.
Theorem24_PacingStaysInList ==
    [][pc = "pace" =>
         /\ pc' # "crashed"
         /\ (pc' = "sleep" \/ totalSleepTime' # totalSleepTime \/ slept' # slept)
              => /\ i + 1 <= Len(dataArray)
                 /\ dataArray[i].timestamp # dataArray[Len(dataArray)].timestamp]_vars

\* C24 witness: a list of three sent events with the timestamps 2000, 1000,
\* 2000 has been replayed to the end, with a delay after the second event
\* only.
Witness24_UnorderedWithRepeats ==
    /\ pc = "done"
    /\ Len(dataArray) = 3
    /\ dataArray[1].timestamp = 2000
    /\ dataArray[2].timestamp = 1000
    /\ dataArray[3].timestamp = 2000
    /\ \A n \in 1..3 : dataArray[n].status = "200"
    /\ {e.i : e \in slept} = {2}

\* C25: an event adds at most one sample to the overall latency series, and
\* only when its request was sent: the series is never longer than the number
\* of requests sent.
Claim25_OneSamplePerRequest == numStats <= requestsSent

\* a <= b, for two fractions.
FracLeq(a, b) == a.num * b.den <= b.num * a.den

\* The event list is in chronological order.
IsOrdered ==
    \A n, m \in 1..Len(dataArray) : n < m => dataArray[n].timestamp <= dataArray[m].timestamp

\* (last timestamp - first timestamp) / ratio
OriginalSpan ==
    Frac(dataArray[Len(dataArray)].timestamp - dataArray[1].timestamp, args.ratio)

====
